---- MODULE Spec2Model ----
(***************************************************************************)
(* Model of the release-tool commands running in one clone against one     *)
(* remote ("origin") and one image registry: "publish" (cmd/publish.go,    *)
(* NewPublishCmd), "version" (NewVersionCmd) and "oci" (cmd/oci.go,        *)
(* NewOciCmd).  Two further clones of the same remote run "publish" step   *)
(* by step (SpecRace), and "oci" runs with failing steps (SpecOciFailures).*)
(*                                                                         *)
(* Strings are sequences of one-character strings, so that HasPrefix,      *)
(* TrimPrefix, Sprintf and the version parser are computed on the names    *)
(* the program really builds.  The repository is a commit graph with local *)
(* and remote refs; `git log --simplify-by-decoration` is computed as git  *)
(* computes it (topological order, decorations in descending ref order).   *)
(***************************************************************************)
EXTENDS Integers, Sequences, FiniteSets, TLC

(***************************************************************************)
(* Bounds of the model.                                                    *)
(***************************************************************************)
MaxCommits == 2
MaxTags == 2
MaxFailures == 1
\* bounds of the failure-free workflow of the tests (SpecWorkflow)
MaxWorkflowCommits == 3
MaxWorkflowTags == 4

(***************************************************************************)
(* Characters and strings.                                                 *)
(***************************************************************************)
Ascii == <<" ", "-", ".", "/", "0", "1", "2", "3", "4", "5", "6", "7", "8",
           "9", ":", ">", "A", "D", "E", "H", "a", "e", "g", "i", "l", "m",
           "n", "o", "r", "s", "t", "v", "x">>

Ord(ch) == CHOOSE i \in 1..Len(Ascii) : Ascii[i] = ch

DigitChars == <<"0", "1", "2", "3", "4", "5", "6", "7", "8", "9">>

IsDigit(ch) == \E i \in 1..10 : DigitChars[i] = ch

DigitVal(ch) == (CHOOSE i \in 1..10 : DigitChars[i] = ch) - 1

S_release == <<"r", "e", "l", "e", "a", "s", "e", "-">>
S_tag == <<"t", "a", "g", ":", " ">>
S_slashv == <<"/", "v">>
S_master == <<"m", "a", "s", "t", "e", "r">>
S_HEAD == <<"H", "E", "A", "D">>
S_arrow == <<" ", "-", ">", " ">>
S_origin == <<"o", "r", "i", "g", "i", "n", "/">>
S_dash == <<"-">>
S_dot == <<".">>

\* The release lines that have refs in the repository, and the one the
\* command is invoked with (args[0]).
LineA == <<"a">>
LineAX == <<"a", "-", "x">>
Lines == {LineA, LineAX}
Published == {LineA}

\* strings.HasPrefix
HasPrefix(s, p) == Len(p) <= Len(s) /\ SubSeq(s, 1, Len(p)) = p

\* strings.TrimPrefix
TrimPrefix(s, p) == IF HasPrefix(s, p) THEN SubSeq(s, Len(p) + 1, Len(s)) ELSE s

\* strings.TrimSpace
RECURSIVE TrimLeft(_)
TrimLeft(s) == IF s # <<>> /\ Head(s) = " " THEN TrimLeft(Tail(s)) ELSE s

RECURSIVE TrimRight(_)
TrimRight(s) ==
    IF s # <<>> /\ s[Len(s)] = " " THEN TrimRight(SubSeq(s, 1, Len(s) - 1)) ELSE s

TrimSpace(s) == TrimRight(TrimLeft(s))

\* byte-wise string order, the order git sorts ref names in
RECURSIVE StrLess(_, _)
StrLess(a, b) ==
    IF b = <<>> THEN FALSE
    ELSE IF a = <<>> THEN TRUE
    ELSE IF Head(a) # Head(b) THEN Ord(Head(a)) < Ord(Head(b))
    ELSE StrLess(Tail(a), Tail(b))

\* %d of fmt.Sprintf
RECURSIVE Itoa(_)
Itoa(n) == IF n < 10 THEN <<DigitChars[n + 1]>>
           ELSE Itoa(n \div 10) \o <<DigitChars[(n % 10) + 1]>>

RECURSIVE Atoi(_)
Atoi(s) == IF s = <<>> THEN 0
           ELSE Atoi(SubSeq(s, 1, Len(s) - 1)) * 10 + DigitVal(s[Len(s)])

\* strings.Split(s, ".")
RECURSIVE SplitDot(_, _)
SplitDot(s, cur) ==
    IF s = <<>> THEN <<cur>>
    ELSE IF Head(s) = "." THEN <<cur>> \o SplitDot(Tail(s), <<>>)
    ELSE SplitDot(Tail(s), Append(cur, Head(s)))

(***************************************************************************)
(* Versions.                                                               *)
(***************************************************************************)
Ver(a, b, c) == [major |-> a, minor |-> b, patch |-> c]

V0 == Ver(0, 0, 0)

IsNumber(s) == s # <<>> /\ \A i \in 1..Len(s) : IsDigit(s[i])

\* semver.NewVersion on the numeric forms MAJOR[.MINOR[.PATCH]]
NewVersion(s) ==
    LET parts == SplitDot(s, <<>>)
        n == Len(parts)
    IN  IF n \in 1..3 /\ \A i \in 1..n : IsNumber(parts[i])
        THEN [ok |-> TRUE,
              v |-> Ver(Atoi(parts[1]),
                        IF n >= 2 THEN Atoi(parts[2]) ELSE 0,
                        IF n >= 3 THEN Atoi(parts[3]) ELSE 0)]
        ELSE [ok |-> FALSE, v |-> V0]

\* fmt.Sprintf("%d.%d.%d", ...)
FormatVersion(a, b, c) == Itoa(a) \o S_dot \o Itoa(b) \o S_dot \o Itoa(c)

\* semver.MustParse(fmt.Sprintf("%d.%d.%d", ...))
MustParse(s) == NewVersion(s).v

\* fmt.Sprintf("release-%s-%d.%d", name, major, minor)
ReleaseBranchName(name, major, minor) ==
    S_release \o name \o S_dash \o Itoa(major) \o S_dot \o Itoa(minor)

\* fmt.Sprintf("%s/v%d.%d.%d", name, major, minor, patch)
TagName_NoPrefix(name, v) ==
    name \o <<"/">> \o Itoa(v.major) \o S_dot \o Itoa(v.minor) \o S_dot \o Itoa(v.patch)

TagName(name, v) ==
    name \o S_slashv \o Itoa(v.major) \o S_dot \o Itoa(v.minor) \o S_dot \o Itoa(v.patch)

(***************************************************************************)
(* State.                                                                  *)
(***************************************************************************)
VARIABLES
    parents,      \* parents[c]: the parents of commit c, in order
    curBranch,    \* checked-out branch, "HEAD" when detached
    headCommit,   \* the commit HEAD resolves to
    branches,     \* local branches: name -> commit
    tags,         \* local tags: name -> commit
    rbranches,    \* branches of origin: name -> commit
    rtags,        \* tags of origin: name -> commit
    nfail,        \* number of git subprocess failures injected so far
    last,         \* the publish invocation that has just returned, if any
    report,       \* the version or oci invocation that has just returned, if any
    registry,     \* the image registry: reference -> image pushed to it
    clones        \* further clones of origin, each running one publish step by step

vars == <<parents, curBranch, headCommit, branches, tags, rbranches, rtags, nfail,
          last, report, registry, clones>>

\* a ref namespace without refs
Empty == [x \in {} |-> 0]

\* create or move the ref k to val
Put(f, k, val) == (k :> val) @@ f

(***************************************************************************)
(* The commit graph and `git log`.                                         *)
(***************************************************************************)

\* the commits `git log <c>` walks: c and all its ancestors
RECURSIVE AncestorsOf(_, _)
AncestorsOf(P, c) ==
    {c} \cup UNION {AncestorsOf(P, P[c][i]) : i \in 1..Len(P[c])}

\* number of children of each commit of S inside S
InDegree(P, S) ==
    [c \in S |-> Cardinality({d \in S : \E i \in 1..Len(P[d]) : P[d][i] = c})]

\* one pass over the parents of a popped commit: a parent whose children
\* have all been shown is pushed on the stack
RECURSIVE PushParents(_, _, _, _)
PushParents(ps, i, stack, indeg) ==
    IF i > Len(ps) THEN [stack |-> stack, indeg |-> indeg]
    ELSE LET p == ps[i]
             d == [indeg EXCEPT ![p] = @ - 1]
         IN  PushParents(ps, i + 1,
                         IF d[p] = 0 THEN Append(stack, p) ELSE stack, d)

\* git's topological (graph) order, which --simplify-by-decoration selects:
\* children before parents, last pushed line of history first
RECURSIVE TopoWalk(_, _, _, _)
TopoWalk(P, stack, indeg, out) ==
    IF stack = <<>> THEN out
    ELSE LET c == stack[Len(stack)]
             r == PushParents(P[c], 1, SubSeq(stack, 1, Len(stack) - 1), indeg)
         IN  TopoWalk(P, r.stack, r.indeg, Append(out, c))

TopoOrder(P, c) == TopoWalk(P, <<c>>, InDegree(P, AncestorsOf(P, c)), <<>>)

\* names of S in descending byte order
RECURSIVE SortDesc(_)
SortDesc(S) ==
    IF S = {} THEN <<>>
    ELSE LET m == CHOOSE x \in S : \A y \in S \ {x} : StrLess(y, x)
         IN  <<m>> \o SortDesc(S \ {m})

Prefixed(p, names) == [i \in 1..Len(names) |-> p \o names[i]]

\* %D of one commit: HEAD first, then tags, then the remote-tracking
\* branches (which follow origin in a single clone), then local branches
Decorations(tg, c) ==
    LET attached == curBranch # S_HEAD
        headItem == IF c # headCommit THEN <<>>
                    ELSE IF attached THEN <<S_HEAD \o S_arrow \o curBranch>>
                    ELSE <<S_HEAD>>
        tagItems == Prefixed(S_tag, SortDesc({t \in DOMAIN tg : tg[t] = c}))
        rmItems == Prefixed(S_origin,
                            SortDesc({b \in DOMAIN rbranches : rbranches[b] = c}))
        brItems == SortDesc({b \in DOMAIN branches :
                               branches[b] = c /\ ~(attached /\ b = curBranch)})
    IN  headItem \o tagItems \o rmItems \o brItems

\* git log --pretty=format:%D --simplify-by-decoration HEAD in a repository
\* whose tags are tg: one sequence of ref items per commit, empty for a
\* commit without refs
GitLog_AllCommits(tg) ==
    [i \in 1..Len(parents) |-> Decorations(tg, Len(parents) + 1 - i)]

GitLog(tg) ==
    LET order == TopoOrder(parents, headCommit)
    IN  [i \in 1..Len(order) |-> Decorations(tg, order[i])]

(***************************************************************************)
(* The version scan of publish (the find_loop of NewPublishCmd).           *)
(***************************************************************************)
TagPrefix(name) == S_tag \o name \o S_slashv

\* latestVersion := semver.MustParse("0.0.0")
DefaultVersion_Initial == Ver(0, 1, 0)

DefaultVersion == MustParse(FormatVersion(0, 0, 0))

\* the inner loop over the refs of one line
RECURSIVE ScanLine(_, _, _)
ScanLine(items, i, name) ==
    IF i > Len(items) THEN [found |-> FALSE, v |-> V0]
    ELSE LET tag == TrimSpace(items[i])
             r == NewVersion(TrimPrefix(tag, TagPrefix(name)))
         IN  IF HasPrefix(tag, TagPrefix(name)) /\ r.ok
             THEN [found |-> TRUE, v |-> r.v]
             ELSE ScanLine(items, i + 1, name)

\* the outer loop: the first parsable tag of the line wins (break find_loop)
RECURSIVE ScanLog(_, _, _)
ScanLog(lines, i, name) ==
    IF i > Len(lines) THEN DefaultVersion
    ELSE LET r == ScanLine(lines[i], 1, name)
         IN  IF lines[i] # <<>> /\ r.found THEN r.v ELSE ScanLog(lines, i + 1, name)

LatestVersionOf(tg, name) == ScanLog(GitLog(tg), 1, name)

LatestVersion(name) == LatestVersionOf(tags, name)

(***************************************************************************)
(* git push without --force: accepted when the ref is new on the remote or *)
(* the update is a fast-forward.                                           *)
(***************************************************************************)
PushAccepted_Forced(refs, ref, c) == TRUE

PushAccepted(refs, ref, c) ==
    ref \notin DOMAIN refs \/ refs[ref] \in AncestorsOf(parents, c)

(***************************************************************************)
(* publish [name]: the RunE of NewPublishCmd.                              *)
(*                                                                         *)
(* fail names the git subprocess the environment makes fail ("none": every *)
(* subprocess runs; a push can still be rejected as a non-fast-forward).   *)
(***************************************************************************)
Failures == {"none", "revParseHead", "revParseBranch", "log",
             "pushBranch", "createTag", "pushTag"}

E_none == "ok"
E_head == "failed to get current commit"
E_branch == "failed to get current branch"
E_log == "failed to get git log"
E_push == "failed to push branch"
E_tag == "failed to create tag"
E_pushTag == "failed to push tag"

M_branch == "Pushed new release branch: "
M_tag == "Created and pushed tag: "

NoPublish ==
    [name |-> <<>>, state |-> "none", branch |-> <<>>, head |-> 0,
     latest |-> V0, version |-> V0, newBranch |-> <<>>, tagName |-> <<>>,
     err |-> "none", out |-> <<>>]

\* no version or oci invocation has just returned
\* the clones that publish concurrently
Clones == {1, 2}

\* a fresh clone of origin: on master at the first commit, without tags,
\* not publishing
IdleClone ==
    [pc |-> "idle", head |-> 1, tags |-> Empty, version |-> V0,
     newBranch |-> <<>>, tagName |-> <<>>, err |-> "none"]

NoReport == [cmd |-> "none", name |-> <<>>, err |-> "none", out |-> <<>>]

\* git rev-parse HEAD
RevParseHead_Parent ==
    IF parents[headCommit] # <<>> THEN parents[headCommit][1] ELSE headCommit

RevParseHead == headCommit

\* git rev-parse --abbrev-ref HEAD
RevParseAbbrevRef == curBranch

\* isReleaseBranch := strings.HasPrefix(currentBranch, "release-"+name+"-")
IsReleaseBranch(currentBranch, name) ==
    HasPrefix(currentBranch, S_release \o name \o S_dash)

\* the version bump of the release-branch state
PatchBump_Minor(latestVersion) ==
    MustParse(FormatVersion(latestVersion.major, latestVersion.minor + 1,
                            latestVersion.patch))

PatchBump(latestVersion) ==
    MustParse(FormatVersion(latestVersion.major, latestVersion.minor,
                            latestVersion.patch + 1))

\* the version bump of the mainline state
MinorBump(latestVersion) ==
    MustParse(FormatVersion(latestVersion.major, latestVersion.minor + 1,
                            latestVersion.patch))

\* git tag -f <tagName> <currentCommit>: creates the tag or moves it
CreateTag_KeepExisting(tg, tagName, c) ==
    IF tagName \in DOMAIN tg THEN tg ELSE Put(tg, tagName, c)

CreateTag(tg, tagName, c) == Put(tg, tagName, c)

\* git push -f origin <tagName>: origin's tag is created or overwritten
PushTag_Prune(rt, tagName, c) == (tagName :> c)

PushTag(rt, tagName, c) == Put(rt, tagName, c)

\* git tag -f runs only if the branch push returned without error
TagAfterPush_Regardless(pushed, fail) == fail # "createTag"

TagAfterPush(pushed, fail) == pushed /\ fail # "createTag"

\* everything one invocation computes and does, as the values it leaves
PublishRun(name, fail) ==
    LET currentCommit == RevParseHead
        currentBranch == RevParseAbbrevRef
        isReleaseBranch == IsReleaseBranch(currentBranch, name)
        latestVersion == LatestVersion(name)
        newVersion == IF isReleaseBranch THEN PatchBump(latestVersion)
                      ELSE MinorBump(latestVersion)
        newBranch == ReleaseBranchName(name, newVersion.major, newVersion.minor)
        pushRef == IF isReleaseBranch THEN currentBranch ELSE newBranch
        early == fail \in {"revParseHead", "revParseBranch", "log"}
        pushed == ~early /\ fail # "pushBranch"
                  /\ PushAccepted(rbranches, pushRef, currentCommit)
        tagged == TagAfterPush(pushed, fail)
        tagPushed == tagged /\ fail # "pushTag"
        tagName == TagName(name, newVersion)
        err == IF fail = "revParseHead" THEN E_head
               ELSE IF fail = "revParseBranch" THEN E_branch
               ELSE IF fail = "log" THEN E_log
               ELSE IF ~pushed THEN E_push
               ELSE IF ~tagged THEN E_tag
               ELSE IF ~tagPushed THEN E_pushTag
               ELSE E_none
        out == (IF pushed /\ ~isReleaseBranch
                THEN <<[msg |-> M_branch, arg |-> newBranch]>> ELSE <<>>)
               \o (IF tagPushed THEN <<[msg |-> M_tag, arg |-> tagName]>> ELSE <<>>)
    IN  [rbranches |-> IF pushed THEN Put(rbranches, pushRef, currentCommit)
                       ELSE rbranches,
         tags |-> IF tagged THEN CreateTag(tags, tagName, currentCommit) ELSE tags,
         rtags |-> IF tagPushed THEN PushTag(rtags, tagName, currentCommit)
                   ELSE rtags,
         res |-> [name |-> name,
                  state |-> IF early THEN "none"
                            ELSE IF isReleaseBranch THEN "release" ELSE "mainline",
                  branch |-> currentBranch, head |-> currentCommit,
                  latest |-> IF early THEN V0 ELSE latestVersion,
                  version |-> IF early THEN V0 ELSE newVersion,
                  newBranch |-> IF early \/ isReleaseBranch THEN <<>> ELSE newBranch,
                  tagName |-> IF pushed THEN tagName ELSE <<>>,
                  err |-> err, out |-> out]]

\* the local tags that carry the prefix of a release line
LineTags(name) == {t \in DOMAIN tags : HasPrefix(t, name \o S_slashv)}

PublishWithin(name, fail, maxTags) ==
    /\ Cardinality(LineTags(name)) < maxTags
    /\ fail # "none" => nfail < MaxFailures
    /\ nfail' = IF fail # "none" THEN nfail + 1 ELSE nfail
    /\ LET r == PublishRun(name, fail)
       IN  /\ rbranches' = r.rbranches
           /\ tags' = r.tags
           /\ rtags' = r.rtags
           /\ last' = r.res
    /\ report' = NoReport
    /\ UNCHANGED <<clones, parents, curBranch, headCommit, branches, registry>>

\* release-tool publish <name>, any one git subprocess possibly failing
Publish(name, fail) == PublishWithin(name, fail, MaxTags)

\* release-tool publish <name> with every git subprocess succeeding
WorkflowPublish(name) == PublishWithin(name, "none", MaxWorkflowTags)

(***************************************************************************)
(* The development workflow around the tool (the steps of the tests).      *)
(***************************************************************************)
\* git commit on top of the checked-out branch
CommitWithin(maxCommits) ==
    /\ Len(parents) < maxCommits
    /\ curBranch # S_HEAD
    /\ parents' = Append(parents, <<headCommit>>)
    /\ headCommit' = Len(parents) + 1
    /\ branches' = Put(branches, curBranch, Len(parents) + 1)
    /\ last' = NoPublish
    /\ report' = NoReport
    /\ UNCHANGED <<clones, curBranch, tags, rbranches, rtags, nfail, registry>>

Commit == CommitWithin(MaxCommits)

WorkflowCommit == CommitWithin(MaxWorkflowCommits)

\* git checkout <b>: a local branch, or a branch of origin, which creates
\* the local branch at the remote's commit
Checkout(b) ==
    /\ b # curBranch
    /\ b \in DOMAIN branches \cup DOMAIN rbranches
    /\ curBranch' = b
    /\ branches' = IF b \in DOMAIN branches THEN branches
                   ELSE Put(branches, b, rbranches[b])
    /\ headCommit' = branches'[b]
    /\ last' = NoPublish
    /\ report' = NoReport
    /\ UNCHANGED <<clones, parents, tags, rbranches, rtags, nfail, registry>>

\* git checkout --detach
Detach ==
    /\ curBranch # S_HEAD
    /\ curBranch' = S_HEAD
    /\ last' = NoPublish
    /\ report' = NoReport
    /\ UNCHANGED <<clones, parents, headCommit, branches, tags, rbranches, rtags, nfail, registry>>

\* the test fixture's existing release branch:
\* git push origin <HEAD>:refs/heads/release-<name>-0.1
SetupReleaseBranch(name) ==
    LET ref == ReleaseBranchName(name, 0, 1)
    IN  /\ tags = Empty
        /\ DOMAIN rbranches = {S_master}
        /\ rbranches' = Put(rbranches, ref, headCommit)
        /\ last' = NoPublish
        /\ report' = NoReport
        /\ UNCHANGED <<clones, parents, curBranch, headCommit, branches, tags, rtags, nfail, registry>>

(***************************************************************************)
(* Specification.                                                          *)
(***************************************************************************)
Init ==
    /\ parents = << <<>> >>
    /\ curBranch = S_master
    /\ headCommit = 1
    /\ branches = (S_master :> 1)
    /\ tags = Empty
    /\ rbranches = (S_master :> 1)
    /\ rtags = Empty
    /\ nfail = 0
    /\ last = NoPublish
    /\ report = NoReport
    /\ registry = Empty
    /\ clones = [k \in Clones |-> IdleClone]

Next ==
    \/ Commit
    \/ \E b \in DOMAIN branches \cup DOMAIN rbranches : Checkout(b)
    \/ Detach
    \/ \E name \in Published, fail \in Failures : Publish(name, fail)

Spec == Init /\ [][Next]_vars

\* the workflow of the tests: commits, checkouts and publishes that succeed
NextWorkflow ==
    \/ WorkflowCommit
    \/ \E b \in DOMAIN branches \cup DOMAIN rbranches : Checkout(b)
    \/ \E name \in Published : WorkflowPublish(name)

SpecWorkflow == Init /\ [][NextWorkflow]_vars

\* the repository of the fixture: origin may already have a release branch
\* without a tag; no git subprocess fails
NextFixture ==
    \/ Commit
    \/ \E b \in DOMAIN branches \cup DOMAIN rbranches : Checkout(b)
    \/ Detach
    \/ \E name \in Lines : SetupReleaseBranch(name)
    \/ \E name \in Published : Publish(name, "none")

SpecFixture == Init /\ [][NextFixture]_vars

(***************************************************************************)
(* version [name]: reports the version HEAD is tagged with for a line.     *)
(***************************************************************************)
E_notTagged == "current HEAD is not tagged with a version"

\* the versions the tests tag by hand
TagSamples == {Ver(1, 2, 3), Ver(2, 3, 4)}

\* the tags pointing exactly at a commit
TagsPointingAt(c) == {t \in DOMAIN tags : tags[t] = c}

\* the tags a version invocation accepts: those on HEAD matching <name>/v*
HeadVersionTags_Reachable(name) ==
    {t \in DOMAIN tags : /\ tags[t] \in AncestorsOf(parents, RevParseHead)
                         /\ HasPrefix(t, name \o S_slashv)}

HeadVersionTags(name) ==
    {t \in TagsPointingAt(RevParseHead) : HasPrefix(t, name \o S_slashv)}

\* release-tool version <name>
VersionCmd(name) ==
    /\ \/ /\ HeadVersionTags(name) = {}
          /\ report' = [cmd |-> "version", name |-> name,
                        err |-> E_notTagged, out |-> <<>>]
       \/ \E t \in HeadVersionTags(name) :
              report' = [cmd |-> "version", name |-> name, err |-> E_none,
                         out |-> TrimPrefix(t, name \o S_slashv)]
    /\ last' = NoPublish
    /\ UNCHANGED <<clones, parents, curBranch, headCommit, branches, tags, rbranches,
                   rtags, nfail, registry>>

\* git tag <name>/v<version>, made by hand on HEAD
GitTag(name, v) ==
    /\ TagName(name, v) \notin DOMAIN tags
    /\ tags' = Put(tags, TagName(name, v), headCommit)
    /\ last' = NoPublish
    /\ report' = NoReport
    /\ UNCHANGED <<clones, parents, curBranch, headCommit, branches, rbranches, rtags,
                   nfail, registry>>

NextVersion ==
    \/ Commit
    \/ \E name \in Lines, v \in TagSamples : GitTag(name, v)
    \/ \E name \in Lines : VersionCmd(name)

SpecVersion == Init /\ [][NextVersion]_vars

\* releases followed by version lookups: commits, checkouts, publishes that
\* succeed, and version invocations
NextPublishVersion ==
    \/ Commit
    \/ \E b \in DOMAIN branches \cup DOMAIN rbranches : Checkout(b)
    \/ \E name \in Published : Publish(name, "none")
    \/ \E name \in Lines : VersionCmd(name)

SpecPublishVersion == Init /\ [][NextPublishVersion]_vars

(***************************************************************************)
(* oci [release-name] [name] [directory]: packs a directory into an image  *)
(* and pushes it under the given reference and under the version.          *)
(***************************************************************************)
S_zero == <<"0", ".", "0", ".", "0">>
S_peel == <<"^", "0">>
S_placeholder == <<"$", "(", "v", "e", "r", "s", "i", "o", "n", ")">>
S_colon == <<":">>
S_latest == <<":", "l", "a", "t", "e", "s", "t">>

HasSuffix(s, p) == Len(p) <= Len(s) /\ SubSeq(s, Len(s) - Len(p) + 1, Len(s)) = p

\* strings.TrimSuffix
TrimSuffix(s, p) == IF HasSuffix(s, p) THEN SubSeq(s, 1, Len(s) - Len(p)) ELSE s

\* strings.ReplaceAll
ReplaceAll_First(s, old, new) ==
    IF \E i \in 1..Len(s) : HasPrefix(SubSeq(s, i, Len(s)), old)
    THEN LET i == CHOOSE j \in 1..Len(s) :
                      /\ HasPrefix(SubSeq(s, j, Len(s)), old)
                      /\ \A k \in 1..(j - 1) : ~HasPrefix(SubSeq(s, k, Len(s)), old)
         IN  SubSeq(s, 1, i - 1) \o new \o SubSeq(s, i + Len(old), Len(s))
    ELSE s

RECURSIVE ReplaceAll(_, _, _)
ReplaceAll(s, old, new) ==
    IF Len(s) < Len(old) THEN s
    ELSE IF HasPrefix(s, old)
         THEN new \o ReplaceAll(SubSeq(s, Len(old) + 1, Len(s)), old, new)
         ELSE <<Head(s)>> \o ReplaceAll(Tail(s), old, new)

\* the output of git rev-parse HEAD: the hexadecimal name of the commit
\* (40 digits in git, two here)
CommitHash(c) == <<"c">> \o Itoa(c)

\* git describe --tags --abbrev=0 from commit c in a repository whose tags
\* are tg: the nearest tagged commit towards the root (histories here have
\* no merges), and of several lightweight tags on that commit the first in
\* ref name order; fails when no tag is reachable
RECURSIVE GitDescribe(_, _)
GitDescribe(tg, c) ==
    LET here == {t \in DOMAIN tg : tg[t] = c}
    IN  IF here # {}
        THEN [ok |-> TRUE,
              tag |-> CHOOSE x \in here : \A y \in here \ {x} : StrLess(x, y)]
        ELSE IF parents[c] = <<>> THEN [ok |-> FALSE, tag |-> <<>>]
        ELSE GitDescribe(tg, parents[c][1])

\* getLatestVersionTag(dir, name) in a repository whose tags are tg;
\* inRepo tells whether dir lies inside a git work tree
GetLatestVersionTagOf(tg, inRepo, name) ==
    IF ~inRepo THEN S_zero
    ELSE LET d == GitDescribe(tg, headCommit)
             prefix == name \o S_slashv
         IN  IF ~d.ok THEN CommitHash(RevParseHead)
             ELSE IF ~HasPrefix(d.tag, prefix) THEN CommitHash(RevParseHead)
             ELSE TrimSuffix(TrimPrefix(d.tag, prefix), S_peel)

getLatestVersionTag(inRepo, name) == GetLatestVersionTagOf(tags, inRepo, name)

\* the image references the packager is called with: a registry host with a
\* port and a repository, tagged latest, tagged otherwise, or untagged
S_repo == <<"h", ":", "5", "/", "i">>
S_dev == <<":", "d", "e", "v">>
\* a reference name.ParseReference rejects: an upper-case repository
S_badRepo == <<"h", ":", "5", "/", "I">>
ImageNames == {S_repo \o S_latest, S_repo \o S_dev, S_repo, S_badRepo}

Lower == {"a", "b", "c", "d", "e", "f", "g", "h", "i", "j", "k", "l", "m",
          "n", "o", "p", "q", "r", "s", "t", "u", "v", "w", "x", "y", "z"}
Upper == {"A", "B", "C", "D", "E", "F", "G", "H", "I", "J", "K", "L", "M",
          "N", "O", "P", "Q", "R", "S", "T", "U", "V", "W", "X", "Y", "Z"}
Digits == {DigitChars[i] : i \in 1..10}
\* the characters of a repository path and of a tag
RepoChars == Lower \cup Digits \cup {"_", "-", ".", "/"}
TagChars == Lower \cup Upper \cup Digits \cup {"_", "-", "."}

Contains(s, ch) == \E i \in 1..Len(s) : s[i] = ch
AllIn(s, chars) == \A i \in 1..Len(s) : s[i] \in chars
\* position of the first and of the last ch in s, 0 when there is none
IndexOf(s, ch) ==
    IF Contains(s, ch)
    THEN CHOOSE i \in 1..Len(s) : s[i] = ch /\ \A j \in 1..(i - 1) : s[j] # ch
    ELSE 0
LastIndexOf(s, ch) ==
    IF Contains(s, ch)
    THEN CHOOSE i \in 1..Len(s) : s[i] = ch /\ \A j \in (i + 1)..Len(s) : s[j] # ch
    ELSE 0

\* name.NewTag(s): what follows the last colon is the tag unless it holds a
\* slash (then the colon is the port's); a missing tag is "latest"; the
\* repository path, after the registry host, and the tag are validated
NewTag(s) ==
    LET k == LastIndexOf(s, ":")
        lastPart == SubSeq(s, k + 1, Len(s))
        hasTag == k > 0 /\ ~Contains(lastPart, "/")
        base == IF hasTag THEN SubSeq(s, 1, k - 1) ELSE s
        tag == IF hasTag THEN lastPart ELSE <<>>
        slash == IndexOf(base, "/")
        path == SubSeq(base, slash + 1, Len(base))
    IN  [ok |-> /\ hasTag => (tag # <<>> /\ AllIn(tag, TagChars))
                /\ slash > 1
                /\ path # <<>>
                /\ AllIn(path, RepoChars),
         context |-> base,
         tag |-> IF tag = <<>> THEN Tail(S_latest) ELSE tag,
         original |-> s]

\* name.ParseReference(s) for a reference without a digest
ParseReference(s) == NewTag(s)

\* Tag.String(): the string the reference was parsed from
RefString(ref) == ref.original

\* Tag.Name(): registry/repository:tag, the place a push writes
RefName(ref) == ref.context \o S_colon \o ref.tag

\* crane.Push(img, s) to a registry whose images are reg
CranePush_Lost(reg, img, s) == reg

CranePush(reg, img, s) == Put(reg, RefName(ParseReference(s)), img)

\* the directories the packager is given, as filepath.Walk visits them: the
\* root first, then its entries in lexical order; <<>> is a directory that
\* does not exist
DirEntry(p) == [path |-> p, regular |-> FALSE, content |-> <<>>]
FileEntry(p, c) == [path |-> p, regular |-> TRUE, content |-> c]
NoDir == <<>>
TreeFlat == <<DirEntry(S_dot), FileEntry(<<"f">>, <<"v", "=">> \o S_placeholder)>>
TreeNested ==
    <<DirEntry(S_dot), DirEntry(<<"d">>),
      FileEntry(<<"d", "/", "f">>, S_placeholder \o S_dash \o S_placeholder),
      FileEntry(<<"g">>, <<"x">>)>>
Trees == {NoDir, TreeFlat, TreeNested}

\* the callback of filepath.Walk over the entries from the i-th on, and what
\* it has the tar writer write
RECURSIVE WriteTar(_, _, _)
WriteTar(tree, i, latestVersion) ==
    IF i > Len(tree) THEN <<>>
    ELSE LET info == tree[i]
             contentStr == ReplaceAll(info.content, S_placeholder, latestVersion)
             written ==
                 IF info.path = S_dot THEN <<>>
                 ELSE IF info.regular
                      THEN <<[name |-> info.path, size |-> Len(contentStr),
                              data |-> contentStr]>>
                      ELSE <<>>
         IN  written \o WriteTar(tree, i + 1, latestVersion)

E_parseRef == "failed to parse image reference"
E_noDir == "failed to copy directory contents: directory does not exist"
E_versionRef == "failed to create version tag reference"
M_published == "Successfully published directory as OCI image: "
M_versionTag == "Added version tag: "

E_tarball == "failed to create tarball"
E_layer == "failed to create layer from tarball"
E_pushImage == "failed to push image"
E_pushVersion == "failed to push version tag"

\* the steps of an oci invocation that can fail for reasons outside the
\* repository: reading a file during the walk, building the layer, and each
\* of the two pushes
OciFailures == {"none", "walk", "layer", "push1", "push2"}

\* the scratch archive file: os.CreateTemp leaves it existing and open
NoScratch == [exists |-> FALSE, open |-> FALSE]
CreateTemp == [exists |-> TRUE, open |-> TRUE]

\* the calls RunE defers once the scratch file is created, in the order
\* they are registered
OciDeferred_CloseOnly == <<"close", "closeGzip", "closeTar">>

OciDeferred == <<"remove", "close", "closeGzip", "closeTar">>

\* the deferred calls run when RunE returns, the last registered first
RECURSIVE RunDeferred(_, _)
RunDeferred(defers, f) ==
    IF defers = <<>> THEN f
    ELSE LET call == defers[Len(defers)]
             g == IF call = "remove" THEN [f EXCEPT !.exists = FALSE]
                  ELSE IF call = "close" THEN [f EXCEPT !.open = FALSE]
                  ELSE f
         IN  RunDeferred(SubSeq(defers, 1, Len(defers) - 1), g)

\* what an oci invocation returns with
OciReport(releaseName, imageName, inRepo, tree, err, version, pushed, out) ==
    [cmd |-> "oci", name |-> releaseName, image |-> imageName,
     inRepo |-> inRepo, tree |-> tree, err |-> err, version |-> version,
     pushed |-> pushed, out |-> out]

\* RunE of NewOciCmd when the step fail fails: the result, the pushes it
\* attempted, the scratch file and the registry it leaves
OciRun(releaseName, imageName, inRepo, tree, fail) ==
    LET ref == ParseReference(imageName)
        latestVersion == getLatestVersionTag(inRepo, releaseName)
        img == WriteTar(tree, 1, latestVersion)
        first == RefString(ref)
        reg1 == CranePush(registry, img, first)
        versionRef == NewTag(TrimSuffix(RefString(ref), S_latest)
                               \o S_colon \o latestVersion)
        second == RefString(versionRef)
        reg2 == CranePush(reg1, img, second)
        firstName == RefName(ParseReference(first))
        secondName == RefName(ParseReference(second))
        Result(err, version, pushed, out) ==
            OciReport(releaseName, imageName, inRepo, tree, err, version,
                      pushed, out)
        Early(err) ==
            [report |-> Result(err, <<>>, <<>>, <<>>), attempts |-> <<>>,
             created |-> FALSE, scratch |-> NoScratch, registry |-> registry]
        Late(err, attempts, pushed, out, reg) ==
            [report |-> Result(err, latestVersion, pushed, out),
             attempts |-> attempts, created |-> TRUE,
             scratch |-> RunDeferred(OciDeferred, CreateTemp),
             registry |-> reg]
    IN  IF ~ref.ok THEN Early(E_parseRef)
        ELSE IF tree = NoDir THEN Early(E_noDir)
        ELSE IF fail = "walk" THEN Late(E_tarball, <<>>, <<>>, <<>>, registry)
        ELSE IF fail = "layer" THEN Late(E_layer, <<>>, <<>>, <<>>, registry)
        ELSE IF fail = "push1"
        THEN Late(E_pushImage, <<firstName>>, <<>>, <<>>, registry)
        ELSE IF ~versionRef.ok
        THEN Late(E_versionRef, <<firstName>>, <<firstName>>, <<>>, reg1)
        ELSE IF fail = "push2"
        THEN Late(E_pushVersion, <<firstName, secondName>>, <<firstName>>,
                  <<>>, reg1)
        ELSE Late(E_none, <<firstName, secondName>>, <<firstName, secondName>>,
                  <<[msg |-> M_published, arg |-> imageName],
                    [msg |-> M_versionTag, arg |-> RefString(versionRef)]>>,
                  reg2)

\* the images one registry is let hold before it is left alone
MaxImages == 1

\* release-tool oci <release-name> <name> <directory>, with the step fail
\* failing
OciFailing(releaseName, imageName, inRepo, tree, fail) ==
    /\ Cardinality(DOMAIN registry) < MaxImages
    /\ fail # "none" => ParseReference(imageName).ok /\ tree # NoDir
    /\ \E r \in {OciRun(releaseName, imageName, inRepo, tree, fail)} :
        /\ report' = r.report @@
                     [fail |-> fail, attempts |-> r.attempts,
                      created |-> r.created, scratch |-> r.scratch]
        /\ registry' = r.registry
        /\ last' = NoPublish
        /\ UNCHANGED <<clones, parents, curBranch, headCommit, branches, tags,
                       rbranches, rtags, nfail>>

\* release-tool oci <release-name> <name> <directory>
Oci(releaseName, imageName, inRepo, tree) ==
    OciFailing(releaseName, imageName, inRepo, tree, "none")

\* git checkout <tag>: HEAD detached at the tagged commit
CheckoutTag(t) ==
    /\ t \in DOMAIN tags
    /\ tags[t] # headCommit
    /\ curBranch' = S_HEAD
    /\ headCommit' = tags[t]
    /\ last' = NoPublish
    /\ report' = NoReport
    /\ UNCHANGED <<clones, parents, branches, tags, rbranches, rtags, nfail, registry>>

\* the repositories of the packager's tests: commits, tags made by hand,
\* a checkout of an older tag, and packaging
NextOci ==
    \/ Commit
    \/ \E name \in Lines, v \in TagSamples : GitTag(name, v)
    \/ \E t \in DOMAIN tags : CheckoutTag(t)
    \/ \E name \in Lines, imageName \in ImageNames, inRepo \in BOOLEAN,
          tree \in Trees : Oci(name, imageName, inRepo, tree)

SpecOci == Init /\ [][NextOci]_vars

\* packaging of one line, from a directory inside the repository, with
\* steps that fail; the repository has commits and tags of that line
NextOciFailures ==
    \/ Commit
    \/ \E v \in TagSamples : GitTag(LineA, v)
    \/ \E imageName \in ImageNames, tree \in Trees, fail \in OciFailures :
          OciFailing(LineA, imageName, TRUE, tree, fail)

SpecOciFailures == Init /\ [][NextOciFailures]_vars

(***************************************************************************)
(* Two clones publishing the same line from their master at the same time. *)
(* Each git subprocess of an invocation is one step; the steps of the two  *)
(* invocations interleave against the one origin.                          *)
(***************************************************************************)
\* the commits the clones may make between them
MaxCloneCommits == 3

\* the tag items of git log --pretty=format:%D --simplify-by-decoration HEAD
\* in a clone whose HEAD is at c and whose tags are tg
CloneLog(tg, c) ==
    LET order == TopoOrder(parents, c)
    IN  [i \in 1..Len(order) |->
            Prefixed(S_tag, SortDesc({t \in DOMAIN tg : tg[t] = order[i]}))]

\* git commit on the master of clone k
CloneCommit(k) ==
    /\ clones[k].pc = "idle"
    /\ Len(parents) < MaxCloneCommits
    /\ parents' = Append(parents, <<clones[k].head>>)
    /\ clones' = [clones EXCEPT ![k].head = Len(parents) + 1]
    /\ UNCHANGED <<curBranch, headCommit, branches, tags, rbranches, rtags,
                   nfail, last, report, registry>>

\* publish <name> in clone k up to the branch push: HEAD, the branch and the
\* git log are read and the new version is computed for the mainline state
CloneResolve(k, name) ==
    LET latestVersion == ScanLog(CloneLog(clones[k].tags, clones[k].head), 1, name)
        newVersion == MinorBump(latestVersion)
    IN  /\ clones[k].pc = "idle"
        /\ clones' = [clones EXCEPT
                        ![k].pc = "pushBranch",
                        ![k].version = newVersion,
                        ![k].newBranch = ReleaseBranchName(name, newVersion.major,
                                                            newVersion.minor),
                        ![k].tagName = TagName(name, newVersion)]
        /\ UNCHANGED <<parents, curBranch, headCommit, branches, tags, rbranches,
                       rtags, nfail, last, report, registry>>

\* git push origin <currentCommit>:refs/heads/<newBranch> of clone k
ClonePushBranch(k) ==
    LET c == clones[k]
    IN  /\ c.pc = "pushBranch"
        /\ IF PushAccepted(rbranches, c.newBranch, c.head)
           THEN /\ rbranches' = Put(rbranches, c.newBranch, c.head)
                /\ clones' = [clones EXCEPT ![k].pc = "tag"]
           ELSE /\ rbranches' = rbranches
                /\ clones' = [clones EXCEPT ![k].pc = "done", ![k].err = E_push]
        /\ UNCHANGED <<parents, curBranch, headCommit, branches, tags, rtags,
                       nfail, last, report, registry>>

\* git tag -f <tagName> <currentCommit> of clone k
CloneTag(k) ==
    LET c == clones[k]
    IN  /\ c.pc = "tag"
        /\ clones' = [clones EXCEPT
                        ![k].pc = "pushTag",
                        ![k].tags = CreateTag(c.tags, c.tagName, c.head)]
        /\ UNCHANGED <<parents, curBranch, headCommit, branches, tags, rbranches,
                       rtags, nfail, last, report, registry>>

\* git push -f origin <tagName> of clone k
ClonePushTag(k) ==
    LET c == clones[k]
    IN  /\ c.pc = "pushTag"
        /\ rtags' = PushTag(rtags, c.tagName, c.head)
        /\ clones' = [clones EXCEPT ![k].pc = "done", ![k].err = E_none]
        /\ UNCHANGED <<parents, curBranch, headCommit, branches, tags, rbranches,
                       nfail, last, report, registry>>

NextRace ==
    \/ \E k \in Clones : CloneCommit(k)
    \/ \E k \in Clones : CloneResolve(k, LineA)
    \/ \E k \in Clones : ClonePushBranch(k)
    \/ \E k \in Clones : CloneTag(k)
    \/ \E k \in Clones : ClonePushTag(k)

SpecRace == Init /\ [][NextRace]_vars

(***************************************************************************)
(* Vocabulary of the properties.                                           *)
(***************************************************************************)
\* semantic-version order
VerLess(a, b) ==
    \/ a.major < b.major
    \/ a.major = b.major /\ a.minor < b.minor
    \/ a.major = b.major /\ a.minor = b.minor /\ a.patch < b.patch

MaxVer(S) == CHOOSE v \in S : \A w \in S : ~VerLess(v, w)

\* the version a tag name carries for a line, if it is a tag <line>/vA.B.C
TagVersion(t, name) ==
    IF HasPrefix(t, name \o S_slashv)
    THEN NewVersion(TrimPrefix(t, name \o S_slashv))
    ELSE [ok |-> FALSE, v |-> V0]

\* the tags of a line on commits that are ancestors of or equal to HEAD
ReachableTags(name) ==
    {t \in DOMAIN tags : /\ tags[t] \in AncestorsOf(parents, headCommit)
                         /\ TagVersion(t, name).ok}

ReachableVersions(name) == {TagVersion(t, name).v : t \in ReachableTags(name)}

\* the tags of a line on commits outside HEAD's history
UnreachableTags(name) ==
    {t \in DOMAIN tags : /\ tags[t] \notin AncestorsOf(parents, headCommit)
                         /\ TagVersion(t, name).ok}

\* the branch name has the form release-<name>-<major>.<minor>
MatchesReleaseBranch(b, name) ==
    LET pre == S_release \o name \o S_dash
        parts == SplitDot(TrimPrefix(b, pre), <<>>)
    IN  /\ HasPrefix(b, pre)
        /\ Len(parts) = 2
        /\ IsNumber(parts[1])
        /\ IsNumber(parts[2])

\* major.minor of a release branch name of the line
BranchVersion(b, name) ==
    NewVersion(TrimPrefix(b, S_release \o name \o S_dash)).v

RemoteReleaseBranches(name) ==
    {b \in DOMAIN rbranches : MatchesReleaseBranch(b, name)}

\* a publish invocation has just returned after choosing its state
Ran == last.state # "none"
Succeeded == last.err = E_none
OnMainline == last.state = "mainline"
OnRelease == last.state = "release"

(***************************************************************************)
(* Claims about publish.                                                   *)
(***************************************************************************)

\* C1: a publish that runs in the mainline state computes the version
\* (latest.major, latest.minor + 1, 0): the patch is reset to 0 whatever the
\* patch of the tag resolved as latest is.
C1_MainlineResetsPatch ==
    (Ran /\ OnMainline /\ ~MatchesReleaseBranch(last.branch, last.name))
        => last.version = Ver(last.latest.major, last.latest.minor + 1, 0)

\* C2: the latest version a publish uses is the maximum, in semantic-version
\* order, of the versions of the line's tags on HEAD and its ancestors
\* (0.0.0 when there is none).
C2_LatestIsMaximum ==
    [][last'.state # "none"
         => last'.latest = MaxVer(ReachableVersions(last'.name) \cup {V0})]_vars

\* C3: a successful publish in the release-branch state computes
\* (latest.major, latest.minor, latest.patch + 1), creates no branch, pushes
\* the current branch as it is and puts the tag <line>/vMAJOR.MINOR.PATCH on
\* the current commit, locally and on origin.
C3_ReleaseBranchPublish ==
    [][(last'.state = "release" /\ last'.err = E_none)
         => /\ last'.latest = LatestVersion(last'.name)
            /\ last'.version = Ver(last'.latest.major, last'.latest.minor,
                                   last'.latest.patch + 1)
            /\ last'.newBranch = <<>>
            /\ \A i \in 1..Len(last'.out) : last'.out[i].msg # M_branch
            /\ DOMAIN rbranches' = DOMAIN rbranches
            /\ DOMAIN branches' = DOMAIN branches
            /\ rbranches' = Put(rbranches, curBranch, branches[curBranch])
            /\ branches' = branches
            /\ last'.tagName = TagName(last'.name, last'.version)
            /\ tags' = Put(tags, last'.tagName, headCommit)
            /\ rtags' = Put(rtags, last'.tagName, headCommit)]_vars

\* C3 witness: the patch release 0.1.1 made on release-a-0.1 after a new
\* commit, with 0.1.0 still on the old commit.
C3_Witness ==
    /\ Succeeded /\ OnRelease
    /\ last.branch = ReleaseBranchName(LineA, 0, 1)
    /\ last.tagName = TagName(LineA, Ver(0, 1, 1))
    /\ headCommit = 2
    /\ rbranches[last.branch] = 2
    /\ rtags[last.tagName] = 2
    /\ TagName(LineA, Ver(0, 1, 0)) \in DOMAIN rtags
    /\ rtags[TagName(LineA, Ver(0, 1, 0))] = 1

\* C4: a publish takes the release-branch path if and only if the current
\* branch name has the form release-<line>-<major>.<minor> for the line it
\* is invoked with.
C4_ReleaseStateIffBranchOfLine ==
    Ran => (OnRelease <=> MatchesReleaseBranch(last.branch, last.name))

\* C5: with release branches of the line on origin and no tag of the line
\* reachable, a successful mainline publish creates a branch that did not
\* exist, with a minor above that of every existing release branch of the
\* line, and the matching tag.
C5_NewBranchAboveExisting ==
    [][(/\ last'.err = E_none
        /\ last'.state = "mainline"
        /\ ReachableVersions(last'.name) = {}
        /\ RemoteReleaseBranches(last'.name) # {})
         => /\ last'.newBranch \notin DOMAIN rbranches
            /\ \A b \in RemoteReleaseBranches(last'.name) :
                   VerLess(BranchVersion(b, last'.name),
                           Ver(last'.version.major, last'.version.minor, 0))
            /\ last'.tagName =
                   TagName(last'.name,
                           Ver(last'.version.major, last'.version.minor, 0))]_vars

\* C6: a second successful publish on a release branch, right after a first
\* one and with HEAD unchanged, names the same tag and leaves every local
\* and remote tag where the first one left it.
C6_SecondPublishIdempotent ==
    [][(/\ last.err = E_none
        /\ last.state = "release"
        /\ last'.err = E_none
        /\ last'.name = last.name)
         => /\ last'.tagName = last.tagName
            /\ tags' = tags
            /\ rtags' = rtags]_vars

\* C7: after a publish that failed at the tag push, with its branch pushed,
\* a successful re-run on the same HEAD resolves the same version and
\* completes it under the same branch name and the same tag name.
C7_RerunCompletesFailedPublish ==
    [][(/\ last.err = E_pushTag
        /\ last'.err = E_none
        /\ last'.name = last.name)
         => /\ last'.version = last.version
            /\ last'.newBranch = last.newBranch
            /\ last'.tagName = last.tagName]_vars

\* the tags on HEAD and its ancestors only
ReachableOnly ==
    [t \in {u \in DOMAIN tags : tags[u] \in AncestorsOf(parents, headCommit)}
       |-> tags[t]]

\* C8: only the line's tags on HEAD and its ancestors count toward latest:
\* latest is the version of one of them (0.0.0 exactly when there is none)
\* and is what it would be if the tags outside HEAD's history did not exist.
C8_OnlyReachableTagsCount ==
    [][last'.state # "none"
         => /\ ReachableVersions(last'.name) # {}
                  => last'.latest \in ReachableVersions(last'.name)
            /\ ReachableVersions(last'.name) = {} => last'.latest = V0
            /\ last'.latest = LatestVersionOf(ReachableOnly, last'.name)]_vars

\* C8 witness: after mainline 0.1.0, mainline 0.2.0 and the patch 0.1.1 on
\* release-a-0.1, the next mainline publish yields 0.3.0 while a/v0.1.1 sits
\* on the release branch's own commit, outside HEAD's history.
C8_Witness ==
    /\ Succeeded /\ OnMainline
    /\ last.branch = S_master
    /\ last.latest = Ver(0, 2, 0)
    /\ last.version = Ver(0, 3, 0)
    /\ TagName(LineA, Ver(0, 1, 0)) \in ReachableTags(LineA)
    /\ TagName(LineA, Ver(0, 1, 1)) \in UnreachableTags(LineA)
    /\ ReleaseBranchName(LineA, 0, 1) \in DOMAIN rbranches
    /\ tags[TagName(LineA, Ver(0, 1, 1))] = rbranches[ReleaseBranchName(LineA, 0, 1)]
    /\ tags[TagName(LineA, Ver(0, 3, 0))] = headCommit

C10_BranchAndTagAtHead ==
    (Succeeded /\ OnMainline)
        => /\ last.out = <<[msg |-> M_branch, arg |-> last.newBranch],
                           [msg |-> M_tag, arg |-> last.tagName]>>
           /\ last.newBranch \in DOMAIN rbranches
           /\ last.tagName \in DOMAIN rtags
           /\ rbranches[last.newBranch] = headCommit
           /\ rtags[last.tagName] = headCommit

\* C10 witness: a mainline publish made on the second commit.
C10_Witness ==
    /\ Succeeded /\ OnMainline
    /\ headCommit = 2
    /\ rbranches[last.newBranch] = 2
    /\ rtags[last.tagName] = 2

\* C11: the mainline branch push is never forced: when release-<line>-M.N
\* is on origin at a commit that is not an ancestor of the current commit,
\* the publish fails with the push error and origin's branches (and every
\* tag) stay where they were.
C11_MainlinePushNotForced ==
    [][(/\ last'.state = "mainline"
        /\ last'.newBranch \in DOMAIN rbranches
        /\ rbranches[last'.newBranch] \notin AncestorsOf(parents, headCommit))
         => /\ last'.err = E_push
            /\ last'.out = <<>>
            /\ rbranches' = rbranches
            /\ tags' = tags
            /\ rtags' = rtags]_vars

\* C11 witness: master at commit 1 publishes 0.1.0 while origin's
\* release-a-0.1 is at commit 2; the push is rejected.
C11_Witness ==
    /\ OnMainline
    /\ last.err = E_push
    /\ nfail = 0
    /\ last.newBranch \in DOMAIN rbranches
    /\ rbranches[last.newBranch] \notin AncestorsOf(parents, headCommit)

\* C12: when the tag name a publish computes already exists, locally or on
\* origin, on a commit other than the current one, the publish still
\* succeeds (unless a git subprocess fails or the branch push is refused)
\* and afterwards the tag points at the current commit locally and on origin.
C12_RetagMovesTag ==
    [][LET T == TagName(last'.name, last'.version)
           ref == IF last'.state = "release" THEN curBranch ELSE last'.newBranch
       IN  (/\ last'.state # "none"
            /\ \/ T \in DOMAIN tags /\ tags[T] # headCommit
               \/ T \in DOMAIN rtags /\ rtags[T] # headCommit)
             => /\ (nfail' = nfail /\ PushAccepted(rbranches, ref, headCommit))
                     => last'.err = E_none
                /\ last'.err = E_none
                     => /\ last'.tagName = T
                        /\ tags' = Put(tags, T, headCommit)
                        /\ rtags' = Put(rtags, T, headCommit)]_vars

\* C12 witness: a publish on commit 2 pushed a release branch there, so it
\* put its tag on commit 2; no tag is on commit 2 any more because the
\* publish that has just succeeded on commit 3 computed the same tag name
\* and moved it.
C12_Witness ==
    /\ Succeeded /\ Ran
    /\ headCommit = 3
    /\ tags[last.tagName] = 3
    /\ rtags[last.tagName] = 3
    /\ \E b \in DOMAIN rbranches : b # S_master /\ rbranches[b] = 2
    /\ \A t \in DOMAIN tags : tags[t] # 2
    /\ \A t \in DOMAIN rtags : rtags[t] # 2

\* C13: a publish, failed or not, changes at most one branch of origin (the
\* current release branch or the computed release-<line>-M.N) and the one
\* tag it computed, locally and on origin: every other branch and tag is
\* still there on the same commit, nothing is deleted, and the local
\* branches, HEAD and the commits are untouched.
C13_PublishFrame ==
    [][last'.err # "none"
         => LET ref == IF last'.state = "release" THEN curBranch
                       ELSE last'.newBranch
                T == TagName(last'.name, last'.version)
            IN  /\ branches' = branches
                /\ parents' = parents
                /\ headCommit' = headCommit
                /\ curBranch' = curBranch
                /\ DOMAIN rbranches \subseteq DOMAIN rbranches'
                /\ DOMAIN rbranches' \subseteq DOMAIN rbranches \cup {ref}
                /\ \A b \in DOMAIN rbranches :
                       b # ref => rbranches'[b] = rbranches[b]
                /\ DOMAIN tags \subseteq DOMAIN tags'
                /\ DOMAIN tags' \subseteq DOMAIN tags \cup {T}
                /\ \A t \in DOMAIN tags : t # T => tags'[t] = tags[t]
                /\ DOMAIN rtags \subseteq DOMAIN rtags'
                /\ DOMAIN rtags' \subseteq DOMAIN rtags \cup {T}
                /\ \A t \in DOMAIN rtags : t # T => rtags'[t] = rtags[t]]_vars

\* C13 witness: the patch publish 0.2.1 on release-a-0.2 after a new commit,
\* with a/v0.2.0 still on the old commit, locally and on origin.
C13_Witness ==
    /\ Succeeded /\ OnRelease
    /\ last.branch = ReleaseBranchName(LineA, 0, 2)
    /\ last.tagName = TagName(LineA, Ver(0, 2, 1))
    /\ tags[last.tagName] = headCommit
    /\ TagName(LineA, Ver(0, 2, 0)) \in DOMAIN tags \cap DOMAIN rtags
    /\ tags[TagName(LineA, Ver(0, 2, 0))] # headCommit
    /\ rtags[TagName(LineA, Ver(0, 2, 0))] = tags[TagName(LineA, Ver(0, 2, 0))]
    /\ parents[headCommit] = <<tags[TagName(LineA, Ver(0, 2, 0))]>>

\* C14: the output of a failed publish, in either state, tells how far it
\* got: it holds a branch-pushed message if and only if the branch push
\* succeeded (the failure came at the tag creation or the tag push), and it
\* never holds the message "Created and pushed tag".
C14_OutputTellsProgress ==
    [][(last'.err # "none" /\ last'.err # E_none)
         => /\ (\E i \in 1..Len(last'.out) : last'.out[i].msg = M_branch)
                  <=> last'.err \in {E_tag, E_pushTag}
            /\ \A i \in 1..Len(last'.out) : last'.out[i].msg # M_tag]_vars

(***************************************************************************)
(* Claims about version.                                                   *)
(***************************************************************************)

\* C15: version <line> succeeds if and only if a tag <line>/vA.B.C points
\* exactly at the current commit, and then prints A.B.C of such a tag;
\* otherwise (tags of the line on ancestors only, no tag of the line, tags
\* of other lines on HEAD) it fails with "current HEAD is not tagged with a
\* version" and prints nothing.
C15_VersionAtHead ==
    [][report'.cmd = "version"
         => LET n == report'.name
                onHead == {t \in DOMAIN tags : /\ tags[t] = headCommit
                                               /\ TagVersion(t, n).ok}
            IN  /\ report'.err = E_none <=> onHead # {}
                /\ report'.err = E_none
                     => \E t \in onHead :
                            LET v == TagVersion(t, n).v
                            IN  report'.out =
                                  FormatVersion(v.major, v.minor, v.patch)
                /\ report'.err # E_none
                     => report'.err = E_notTagged /\ report'.out = <<>>]_vars

\* C15 witness: the line's only tags are on the parent commit and another
\* line is tagged on HEAD; version fails for the line.
C15_Witness ==
    /\ report.cmd = "version"
    /\ report.name = LineA
    /\ report.err = E_notTagged
    /\ headCommit = 2
    /\ \E t \in DOMAIN tags : tags[t] = 1 /\ TagVersion(t, LineA).ok
    /\ \E t \in DOMAIN tags : tags[t] = 2 /\ TagVersion(t, LineAX).ok

(***************************************************************************)
(* Claims about oci.                                                       *)
(***************************************************************************)
OciRan == report.cmd = "oci"
\* the invocation got as far as resolving a version
OciResolved == OciRan /\ report.err \in {E_none, E_versionRef}
\* the image the invocation pushed to the given reference
PushedImage == registry[report.pushed[1]]
\* the files of the packed directory with v for the placeholder
FilesWith(tree, v) ==
    {[name |-> tree[i].path,
      data |-> ReplaceAll(tree[i].content, S_placeholder, v)] :
         i \in {j \in 2..Len(tree) : tree[j].regular}}
FilesOf(img) == {[name |-> img[i].name, data |-> img[i].data] : i \in 1..Len(img)}

\* C16: when the repository has no tags at all the packager resolves 0.0.0:
\* 0.0.0 replaces the placeholder in the packed files and is the tag of the
\* second push.
C16_NoTagsResolveZero ==
    (OciResolved /\ tags = Empty)
        => /\ report.version = S_zero
           /\ FilesOf(PushedImage) = FilesWith(report.tree, S_zero)
           /\ report.err = E_none
                => report.pushed[2] = S_repo \o S_colon \o S_zero

\* C17: the version the packager resolves for a line depends only on the
\* tags of that line: it is the version resolved in the same repository
\* without the tags of the other lines.
C17_OnlyOwnLineTagsCount ==
    OciResolved
        => report.version =
             GetLatestVersionTagOf([t \in LineTags(report.name) |-> tags[t]],
                                   report.inRepo, report.name)

\* C18: the version the packager substitutes is the greatest among the
\* line's tags reachable from HEAD: a reachable tag on an ancestor counts,
\* a tag outside HEAD's history is never used.
C18_GreatestReachableTag ==
    (OciResolved /\ report.inRepo /\ ReachableTags(report.name) # {})
        => LET v == MaxVer(ReachableVersions(report.name))
           IN  /\ report.version = FormatVersion(v.major, v.minor, v.patch)
               /\ FilesOf(PushedImage) = FilesWith(report.tree, report.version)


\* C19: whatever tag the given image reference has (latest, another tag, no
\* tag), the first push goes to the given reference and the second push to
\* the same registry and repository with the resolved version as its tag.
C19_SecondPushSameRepository ==
    (OciRan /\ ParseReference(report.image).ok /\ report.tree # NoDir)
        => /\ report.err = E_none
           /\ report.pushed =
                <<RefName(ParseReference(report.image)),
                  ParseReference(report.image).context \o S_colon
                      \o report.version>>
           /\ report.pushed[2] \in DOMAIN registry

\* the entries the archive of a walked tree is to hold with v for the
\* placeholder: one for each entry but the root, in walk order
ArchiveOf(tree, v) ==
    [i \in 1..(Len(tree) - 1) |->
        LET data == IF tree[i + 1].regular
                    THEN ReplaceAll(tree[i + 1].content, S_placeholder, v)
                    ELSE <<>>
        IN  [name |-> tree[i + 1].path, size |-> Len(data), data |-> data]]

\* C20: the archive holds one entry for every entry of the walked tree other
\* than the root, in walk order: a header without contents for a directory,
\* a header and the rewritten contents for a regular file.
C20_ArchiveMirrorsTree ==
    OciResolved => PushedImage = ArchiveOf(report.tree, report.version)

\* the positions of s where an occurrence of p starts
Occurrences(s, p) ==
    {i \in 1..(Len(s) - Len(p) + 1) : SubSeq(s, i, i + Len(p) - 1) = p}

\* s with v at every occurrence of the placeholder, position by position
RECURSIVE Expand(_, _, _)
Expand(s, i, v) ==
    IF i > Len(s) THEN <<>>
    ELSE IF i \in Occurrences(s, S_placeholder)
         THEN v \o Expand(s, i + Len(S_placeholder), v)
         ELSE <<s[i]>> \o Expand(s, i + 1, v)

\* C21: every regular file of the packaged tree is archived with each
\* occurrence of $(version) replaced by the resolved version, no occurrence
\* remains, and the size its header declares is the length of the
\* rewritten content.
C21_PlaceholderReplaced ==
    OciResolved
        => /\ \A i \in 2..Len(report.tree) :
                report.tree[i].regular
                  => \E k \in 1..Len(PushedImage) :
                        /\ PushedImage[k].name = report.tree[i].path
                        /\ PushedImage[k].data =
                             Expand(report.tree[i].content, 1, report.version)
           /\ \A k \in 1..Len(PushedImage) :
                /\ Occurrences(PushedImage[k].data, S_placeholder) = {}
                /\ PushedImage[k].size = Len(PushedImage[k].data)

\* C21 witness: a file with two placeholders was packed with version 1.2.3,
\* which is shorter than the placeholder.
C21_Witness ==
    /\ OciResolved
    /\ report.tree = TreeNested
    /\ report.version = <<"1", ".", "2", ".", "3">>
    /\ \E k \in 1..Len(PushedImage) :
          /\ PushedImage[k].name = <<"d", "/", "f">>
          /\ PushedImage[k].size = 11
          /\ PushedImage[k].size # Len(TreeNested[3].content)

\* C22: the two pushes are sequential, the given reference first and the
\* version reference second: the version push is attempted only after the
\* first push succeeded, no push is attempted twice, success is reported
\* and the success messages are written only if both pushes succeeded, and
\* a failing push fails the invocation.
C22_PushesSequential ==
    OciRan
        => LET first == RefName(ParseReference(report.image))
           IN  /\ Len(report.attempts) <= 2
               /\ Len(report.attempts) >= 1 => report.attempts[1] = first
               /\ Len(report.attempts) = 2
                    => /\ report.attempts[2] # first
                       /\ report.pushed # <<>>
                       /\ report.pushed[1] = first
                       /\ first \in DOMAIN registry
               /\ (report.err = E_none \/ report.out # <<>>)
                    => /\ report.pushed = report.attempts
                       /\ Len(report.pushed) = 2
                       /\ report.err = E_none
                       /\ \A i \in 1..2 : report.pushed[i] \in DOMAIN registry
               /\ report.fail = "push1"
                    => /\ report.err = E_pushImage
                       /\ report.attempts = <<first>>
                       /\ report.pushed = <<>>
               /\ report.fail = "push2" /\ report.err # E_versionRef
                    => /\ report.err = E_pushVersion
                       /\ report.pushed = <<first>>

\* C22 witness: the second push failed after the first one succeeded.
C22_Witness ==
    /\ OciRan
    /\ report.fail = "push2"
    /\ report.err = E_pushVersion
    /\ Len(report.attempts) = 2
    /\ report.pushed = <<report.attempts[1]>>
    /\ report.out = <<>>
    /\ DOMAIN registry = {report.attempts[1]}

\* the exit paths of the packager after the scratch file was created
LateExits ==
    {E_none, E_tarball, E_layer, E_versionRef, E_pushImage, E_pushVersion}

\* C23: on every exit path after the scratch archive file was created
\* (success, archive write error, layer error, version reference error,
\* failure of either push) the scratch file no longer exists when the
\* invocation returns.
C23_ScratchFileRemoved ==
    OciRan
        => /\ report.created <=> report.err \in LateExits
           /\ report.created
                => ~report.scratch.exists /\ ~report.scratch.open
           /\ ~report.created => report.scratch = NoScratch

\* C23 witness: the invocation failed building the version reference, after
\* the first push, and its scratch file is gone.
C23_Witness ==
    /\ OciRan
    /\ report.err = E_versionRef
    /\ report.created
    /\ report.pushed # <<>>
    /\ ~report.scratch.exists

\* C24: packaging a directory that does not exist fails with the
\* directory-not-found error as the first step and has no side effect: no
\* version is resolved, no scratch file is created, nothing is pushed.
C24_MissingDirectoryFailsFirst ==
    [][(report'.cmd = "oci" /\ report'.tree = NoDir)
         => /\ report'.err = E_noDir
            /\ report'.version = <<>>
            /\ ~report'.created
            /\ report'.attempts = <<>>
            /\ report'.out = <<>>
            /\ registry' = registry]_vars

(***************************************************************************)
(* Claims about sequences of publishes.                                    *)
(***************************************************************************)

\* C25: across commits, checkouts and successful publishes, the version a
\* publish computes is strictly greater than every version of the line
\* already tagged on a commit reachable from HEAD, so a publish never moves
\* an existing tag of the line onto a different commit.
C25_VersionsStrictlyIncrease ==
    [][(last'.state # "none" /\ last'.err = E_none)
         => LET T == TagName(last'.name, last'.version)
            IN  /\ \A v \in ReachableVersions(last'.name) :
                      VerLess(v, last'.version)
                /\ T \in DOMAIN tags => tags[T] = headCommit
                /\ \A t \in LineTags(last'.name) : tags'[t] = tags[t]]_vars

\* C26: a successful publish on a release branch release-<line>-M.N creates
\* a tag <line>/vM.N.P: the major.minor of the patch tag is the major.minor
\* of the branch it was published from.
C26_PatchTagOfBranchMinor ==
    [][(last'.state = "release" /\ last'.err = E_none
          /\ MatchesReleaseBranch(curBranch, last'.name))
         => LET bv == BranchVersion(curBranch, last'.name)
            IN  /\ last'.version.major = bv.major
                /\ last'.version.minor = bv.minor
                /\ last'.tagName = TagName(last'.name, last'.version)]_vars

(***************************************************************************)
(* Claims about concurrent publishes.                                      *)
(***************************************************************************)
BothDone == \A k \in Clones : clones[k].pc = "done"

\* C27: when two publishes of a line from two clones on mainline resolve
\* the same latest and interleave against the same origin, then once both
\* have finished the branch release-<line>-M.N and the tag <line>/vM.N.0 of
\* origin point at the same commit; an invocation whose branch push was
\* rejected has not pushed its tag.
C27_RaceLeavesBranchAndTagTogether ==
    (BothDone /\ clones[1].version = clones[2].version)
        => /\ rtags[clones[1].tagName] = rbranches[clones[1].newBranch]
           /\ \A k \in Clones :
                clones[k].err = E_push
                  => /\ clones[k].tagName \notin DOMAIN clones[k].tags
                     /\ rtags[clones[k].tagName] # clones[k].head

(***************************************************************************)
(* Further claims about publish.                                           *)
(***************************************************************************)

\* C28: in either state the branch push comes before any tag operation: a
\* publish that changed a tag has its branch on origin at HEAD, and a
\* publish whose branch push was rejected fails without creating, moving
\* or pushing a tag, all local and remote tags being unchanged.
C28_BranchPushBeforeTag ==
    [][last'.state # "none"
         => LET ref == IF last'.state = "release" THEN curBranch
                       ELSE ReleaseBranchName(last'.name, last'.version.major,
                                              last'.version.minor)
            IN  /\ (tags' # tags \/ rtags' # rtags)
                     => /\ ref \in DOMAIN rbranches'
                        /\ rbranches'[ref] = headCommit
                /\ last'.err = E_push
                     => /\ tags' = tags
                        /\ rtags' = rtags
                        /\ rbranches' = rbranches
                        /\ \A i \in 1..Len(last'.out) :
                              last'.out[i].msg # M_tag]_vars

\* C28 witness: a publish on a release branch whose branch push failed left
\* the tag of the first release where it was and created no further tag.
C28_Witness ==
    /\ last.state = "release"
    /\ last.err = E_push
    /\ DOMAIN tags = {TagName(LineA, Ver(0, 1, 0))}
    /\ rtags = tags
    /\ TagName(LineA, last.version) \notin DOMAIN tags

\* a version invocation for the line whose publish has just succeeded, HEAD
\* being where the publish left it
VersionAfterPublish ==
    /\ last.state # "none"
    /\ last.err = E_none
    /\ report'.cmd = "version"
    /\ report'.name = last.name

====
